---- MODULE Spec2Model ----
(***************************************************************************)
(* The web ingestion pipeline of the Uploader component                    *)
(* (src/components/ChatInterface.tsx, lines 164-530) with the persistence  *)
(* layer (src/App.tsx, lines 401-496) and the discovery calls of           *)
(* src/services/geminiService.ts.                                          *)
(*                                                                         *)
(* One action is the code that runs between two awaits of a handler, so    *)
(* the handlers interleave exactly where the event loop lets them.         *)
(* Strings are modelled by the features the code reads from them: a URL    *)
(* by its page, its query/fragment suffix and whether `new URL` and        *)
(* `encodeURIComponent` accept it; a text by its length.                   *)
(***************************************************************************)
EXTENDS Integers, Sequences, FiniteSets, TLC

\* ---------------------------------------------------------------- bounds
\* ids generateId can return: 1..MaxId
MaxId == 2
\* selection toggles the user makes on one candidate list
MaxToggles == 1
\* standalone scrapes started and not yet consumed, at most
MaxSolo == 1

\* how far the lengths of the bodies tried go on either side of 500
MaxPad == 6

\* ------------------------------------------------------ program constants
\* PROXY_LIST.length
NumProxies == 5
\* text.length > 500
MinBodyLen == 500
\* textContent.length < 100
MinTextLen == 100
\* links.length < 5
CrawlThreshold == 5

None == "none"

\* ------------------------------------------------------------------ URLs
(* A URL string: page is the resource it names (0 is the site root, -1 the *)
(* empty input), sfx its query/fragment suffix, raw whether it still needs *)
(* trimming or the https:// prefix, parse whether `new URL` accepts it     *)
(* once prefixed, sur whether it holds a lone surrogate.                   *)
U(page, sfx, raw, parse, sur) ==
    [page |-> page, sfx |-> sfx, raw |-> raw, parse |-> parse, sur |-> sur]

\* the string '' (and, raw, a string of blanks)
EmptyUrl == U(-1, "", FALSE, FALSE, FALSE)
BlankUrl == U(-1, "", TRUE, FALSE, FALSE)

\* a well-formed absolute URL of page p
Href(p) == U(p, "", FALSE, TRUE, FALSE)

\* a normalization that prefixes https:// whether or not the string starts
\* with http: a url that has its scheme comes out as a url of the host
\* 'https' (page -2), which no input names
normalizeUrlPrefixing(u) ==
    IF u.page = -1 THEN EmptyUrl
    ELSE IF ~u.raw THEN [u EXCEPT !.page = -2, !.sur = u.sur /\ ~u.parse]
    ELSE IF u.parse THEN [u EXCEPT !.raw = FALSE, !.sur = FALSE]
    ELSE [u EXCEPT !.raw = FALSE]

\* normalizeUrl: trim, '' for a blank input, prefix https://, then
\* new URL(target).href, which re-encodes a lone surrogate, or the
\* prefixed string itself when new URL throws
normalizeUrl(u) ==
    IF u.page = -1 THEN EmptyUrl
    ELSE IF u.parse THEN [u EXCEPT !.raw = FALSE, !.sur = FALSE]
    ELSE [u EXCEPT !.raw = FALSE]

\* encodeURIComponent(url) throws URIError on a lone surrogate
Encodable(u) == ~u.sur

\* PROXY_LIST[i](url): the first three templates call encodeURIComponent,
\* the last two splice the url in as it is; TRUE when the template throws
ProxyUrlThrows(i, u) == i < 3 /\ ~Encodable(u)

\* ------------------------------------------------------- proxy responses
\* a text, by its length and whether it holds white space only
Text(len, blank) == [len |-> len, blank |-> blank]

\* the denial markers a relay's error page may hold
Markers == {None, "access denied", "bot check", "please enable javascript"}

\* a document, by what cleanHtml reads from it: the text of the elements the
\* selector matches ('' when it matches none), whether there is a
\* main-content container and its text, and the text of the body
Doc(sel, hasMain, main, body) ==
    [sel |-> sel, hasMain |-> hasMain, main |-> main, body |-> body]

Blank == Text(0, TRUE)
Long  == Text(MinTextLen, FALSE)
Short == Text(MinTextLen - 1, FALSE)

\* the documents of the scraped pages: one per path through cleanHtml and
\* per side of the length check
Docs ==
    {Doc(Long, TRUE, Short, Blank),
     Doc(Text(MinTextLen, TRUE), TRUE, Long, Short),
     Doc(Blank, TRUE, Blank, Long),
     Doc(Blank, FALSE, Blank, Long),
     Doc(Blank, FALSE, Blank, Short)}

\* a response body: its length, the denial marker it holds, its document
\* and the number of its anchors that the filter of handleScanSite keeps
Page(len, marker, doc, anchors) ==
    [len |-> len, marker |-> marker, doc |-> doc, anchors |-> anchors]

NoDoc == Doc(Blank, FALSE, Blank, Blank)
NoPage == Page(0, None, NoDoc, 0)

\* bodies that hold a relay's error page, or are one character too short
ErrorPages ==
    {Page(MinBodyLen + 1, m, NoDoc, 0) : m \in Markers \ {None}}
    \cup {Page(MinBodyLen, None, NoDoc, 0)}

\* the bodies the proxies return for a scraped page
ScrapePages == ErrorPages \cup {Page(MinBodyLen + 1, None, d, 0) : d \in Docs}

\* the bodies the proxies return for the homepage
HomePages == ErrorPages \cup {Page(MinBodyLen + 1, None, NoDoc, n) : n \in {0, 2, 20}}

\* what one proxy attempt can end in: the 7 s timer aborts the fetch, the
\* transport fails, the status is not 2xx, reading the body fails, the body
\* never finishes arriving, or a body arrives
Outcome(kind, page) == [kind |-> kind, page |-> page]
NoOutcome == Outcome(None, NoPage)
Failures ==
    {Outcome(k, NoPage) : k \in {"timeout", "neterr", "status", "bodyfail", "bodyhang"}}
ScrapeOutcomes == Failures \cup {Outcome("body", pg) : pg \in ScrapePages}
HomeOutcomes == Failures \cup {Outcome("body", pg) : pg \in HomePages}

\* line 224: text.length > 500 and neither marker in the lower-cased text
AcceptsBody(pg) ==
    /\ pg.len > MinBodyLen
    /\ pg.marker # "access denied"
    /\ pg.marker # "bot check"

\* lines 222-227: res.ok, the body read, the body accepted
Accepts(o) == o.kind = "body" /\ AcceptsBody(o.page)

\* ----------------------------------------------------------------- tasks
\* the calls of processWebScrape in flight: the one the batch loop awaits
\* and the standalone ones
Batch == <<"batch", 0>>
Solos == {<<"solo", n>> : n \in 1..MaxSolo}
ScrapeTasks == {Batch} \cup Solos

\* a task at rest
IdleTask ==
    [pc |-> "idle", url |-> EmptyUrl, sel |-> "", i |-> 0, log |-> <<>>,
     fret |-> None, textLen |-> -1, id |-> 0, called |-> {}, wrote |-> FALSE,
     res |-> None]

\* the loop variable after a failed attempt (for ... i++)
NextProxy(i) == i + 1

\* fetchWithRotation up to its first await: PROXY_LIST[0](url) is built
\* outside the try, so its URIError leaves the function
FetchBegin(p, url) ==
    IF ProxyUrlThrows(0, url)
    THEN [p EXCEPT !.url = url, !.i = 0, !.log = <<>>, !.fret = "thrown"]
    ELSE [p EXCEPT !.url = url, !.i = 0, !.log = <<>>, !.fret = "pending", !.pc = "fetch"]

\* fetchWithRotation from the end of attempt i, which ended in o, to the
\* next await or to its return: the accepted body is returned, any other
\* outcome moves to the next proxy, and null is returned after the last
FetchOn(p, o) ==
    LET logged == [p EXCEPT !.log = Append(p.log, [proxy |-> p.i, accepted |-> Accepts(o)])]
    IN  IF o.kind = "bodyhang" THEN [p EXCEPT !.pc = "hung"]
        ELSE IF Accepts(o) THEN [logged EXCEPT !.fret = "text"]
        ELSE IF NextProxy(p.i) < NumProxies
             THEN IF ProxyUrlThrows(NextProxy(p.i), p.url)
                  THEN [logged EXCEPT !.fret = "thrown"]
                  ELSE [logged EXCEPT !.i = NextProxy(p.i)]
        ELSE [logged EXCEPT !.fret = "null"]

\* ------------------------------------------------------------ extraction
\* the selectors the user can type: none, one the DOM accepts, one it
\* rejects (querySelectorAll throws a SyntaxError)
Selectors == {"", "valid", "invalid"}

\* an extraction that returns what the selector matched, whatever it holds
cleanHtmlUntrimmed(pg, selector) ==
    IF selector = "invalid" THEN [thrown |-> TRUE, text |-> Blank]
    ELSE IF selector # "" THEN [thrown |-> FALSE, text |-> pg.doc.sel]
    ELSE IF pg.doc.hasMain THEN [thrown |-> FALSE, text |-> pg.doc.main]
    ELSE [thrown |-> FALSE, text |-> pg.doc.body]

\* cleanHtml: the selector's text when it is not blank, else the first
\* main-content container's text when there is one, else the body's text;
\* thrown when querySelectorAll rejects the selector
cleanHtml(pg, selector) ==
    IF selector = "invalid" THEN [thrown |-> TRUE, text |-> Blank]
    ELSE IF selector # "" /\ ~pg.doc.sel.blank THEN [thrown |-> FALSE, text |-> pg.doc.sel]
    ELSE IF pg.doc.hasMain THEN [thrown |-> FALSE, text |-> pg.doc.main]
    ELSE [thrown |-> FALSE, text |-> pg.doc.body]

\* ----------------------------------------------------------- persistence
Ids == 1..MaxId

\* generateId: two Math.random() draws in base 36; nothing compares the
\* result with the ids in use
generateId == Ids

\* the VideoMetadata that processWebScrape builds; of its fields the store
\* reads the key, and nothing in the component reads an item back
NewEntry(id, url) == [id |-> id, type |-> "web/scrape"]

\* saveVideoToDB: videoStore.put(metadata) on a store keyed by id, which
\* replaces the item stored under that id when there is one
Put(st, item) ==
    [k \in DOMAIN st \cup {item.id} |-> IF k = item.id THEN item ELSE st[k]]

\* ---------------------------------------------------------------- scrape
\* a task whose processWebScrape has thrown e or returned ("ok")
Settle(p, e) == [p EXCEPT !.pc = "settled", !.res = e]

\* a length check that also rejects a text of exactly 100 characters
TooShortOrEqual(text) == text.len <= MinTextLen

\* line 300: textContent.length < 100
TooShort(text) == text.len < MinTextLen

\* lines 299-302: the text of cleanHtml is checked for its length and
\* handed to analyzeWebContent
ScrapeOnText(p, o) ==
    LET got == cleanHtml(o.page, p.sel)
        q == [p EXCEPT !.textLen = got.text.len]
    IN  IF got.thrown THEN Settle(p, "SelectorError")
        ELSE IF TooShort(got.text) THEN Settle(q, "EmptyContent")
        ELSE [q EXCEPT !.pc = "analyze", !.called = @ \cup {"analyze"}]

\* a processWebScrape without the null check of line 298
ScrapeAfterFetchUnchecked(p, o) ==
    IF p.fret = "thrown" THEN Settle(p, "URIError")
    ELSE IF p.fret \in {"null", "text"} THEN ScrapeOnText(p, o)
    ELSE p

\* processWebScrape from the return of fetchWithRotation to the next await:
\* null is Blocked, a text under 100 characters is Empty scrape, else
\* analyzeWebContent is called
ScrapeAfterFetch(p, o) ==
    IF p.fret = "thrown" THEN Settle(p, "URIError")
    ELSE IF p.fret = "null" THEN Settle(p, "FetchBlocked")
    ELSE IF p.fret = "text" THEN ScrapeOnText(p, o)
    ELSE p

\* processWebScrape(url, instruction, selector) up to its first await
ScrapeBegin(url, selector) ==
    ScrapeAfterFetch(FetchBegin([IdleTask EXCEPT !.sel = selector], normalizeUrl(url)),
                     NoOutcome)

\* ----------------------------------------------------------------- state
VARIABLES
    mode,            \* 'upload' | 'url' | 'scrape'
    discoveryMode,   \* the Recursive Discovery checkbox
    isProcessing,
    progress,        \* the percentage of setProgress
    error,           \* the message of setError, None for null
    discoveredLinks, \* DiscoveredLink[]
    selectedLinks,   \* Set<string>, in insertion order
    store,           \* the object store 'videos': a function from the ids in use to items
    proc,            \* the processWebScrape call of each scrape task
    batch,           \* handleBatchScrape's locals
    scan,            \* handleScanSite's locals
    toggles,         \* selection toggles made on the current candidate list
    call             \* a call of one of the component's pure functions, on its own

vars == <<mode, discoveryMode, isProcessing, progress, error, discoveredLinks,
          selectedLinks, store, proc, batch, scan, toggles, call>>

\* ----------------------------------------------------------------- links
L(page, sfx, title) == [url |-> U(page, sfx, FALSE, TRUE, FALSE), title |-> title]

\* l.url.split('#')[0].split('?')[0]
Strip(u) == [u EXCEPT !.sfx = ""]

\* the indices of a sequence
Idx(q) == 1..Len(q)

\* Array.prototype.filter: the elements of q at the indices in keep, from
\* index i on, in their order
RECURSIVE Keep(_, _, _)
Keep(q, keep, i) ==
    IF i > Len(q) THEN <<>>
    ELSE (IF i \in keep THEN <<q[i]>> ELSE <<>>) \o Keep(q, keep, i + 1)

\* geminiService.ts lines 188-195: a grounding chunk whose uri includes the
\* domain is pushed unless a link already has exactly that url
RECURSIVE PushChunks(_, _)
PushChunks(links, chunks) ==
    IF chunks = <<>> THEN links
    ELSE LET c == Head(chunks)
             pushed == IF c.onDomain /\ \A i \in Idx(links) : links[i].url # c.uri
                       THEN Append(links, [url |-> c.uri, title |-> c.title])
                       ELSE links
         IN  PushChunks(pushed, Tail(chunks))

\* geminiService.ts lines 197-203: the first link of each stripped url stays
SeenFilter(links) ==
    LET fresh(i) == \A j \in 1..(i - 1) : Strip(links[j].url) # Strip(links[i].url)
    IN  Keep(links, {i \in Idx(links) : fresh(i)}, 1)

\* discoverSiteLinks on the model's answer: [] when the call throws
discoverSiteLinks(ans) ==
    IF ~ans.ok THEN <<>> ELSE SeenFilter(PushChunks(ans.links, ans.chunks))

\* filterAndTitleLinks and predictCommonLinks: the answer's links, [] when
\* the call or the parse throws
AnswerLinks(ans) == IF ~ans.ok THEN <<>> ELSE ans.links

\* Array.from(new Map(links.map(item => [item.url, item])).values()): one
\* entry per url, at the place of its first link, holding its last link
MapDedup(links) ==
    LET first(i) == \A j \in 1..(i - 1) : links[j].url # links[i].url
        last(u)  == CHOOSE i \in Idx(links) :
                        /\ links[i].url = u
                        /\ \A j \in Idx(links) : links[j].url = u => j <= i
        keys     == Keep(links, {i \in Idx(links) : first(i)}, 1)
    IN  [n \in Idx(keys) |-> links[last(keys[n].url)]]

\* a selection that starts empty
NoUrls(links) == <<>>

\* the urls of a list of links
UrlsOf(links) == [n \in Idx(links) |-> links[n].url]

\* ---------------------------------------------------------------- inputs
\* what the user types as Target URL: blanks, the site without a scheme,
\* a string new URL rejects, and one that also holds a lone surrogate
SiteInputs ==
    {BlankUrl, U(0, "", TRUE, TRUE, FALSE), U(0, "", TRUE, FALSE, FALSE),
     U(0, "", TRUE, FALSE, TRUE)}

\* what the user types for a standalone scrape
PageInputs == {U(1, "", TRUE, TRUE, FALSE), U(1, "", TRUE, FALSE, TRUE)}

\* an answer of the generative model; ok is FALSE when the call or the
\* parse of its text throws
Failed == [ok |-> FALSE, links |-> <<>>, chunks |-> <<>>]
Ans(links, chunks) == [ok |-> TRUE, links |-> links, chunks |-> chunks]
Chunk(page, title, onDomain) ==
    [uri |-> Href(page), title |-> title, onDomain |-> onDomain]

\* answers to the search-grounded call of discoverSiteLinks
DiscoverAnswers ==
    {Failed,
     Ans(<<>>, <<>>),
     Ans(<<L(1, "", "a"), L(1, "?q", "b")>>, <<>>),
     Ans(<<L(1, "", "a"), L(2, "", "a")>>, <<Chunk(2, "b", TRUE), Chunk(6, "a", FALSE)>>),
     Ans(<<L(1, "", "a"), L(2, "", "a"), L(3, "", "a"), L(4, "", "a")>>, <<>>),
     Ans(<<L(1, "", "a"), L(2, "", "a"), L(3, "", "a"), L(4, "", "a")>>,
         <<Chunk(5, "a", TRUE)>>),
     Ans(<<L(1, "", "a"), L(2, "", "a"), L(3, "", "a"), L(4, "", "a"), L(5, "", "a")>>,
         <<>>)}

\* answers to the ranking call of filterAndTitleLinks
CurateAnswers ==
    {Failed, Ans(<<>>, <<>>), Ans(<<L(2, "", "b"), L(2, "?q", "a")>>, <<>>)}

\* answers to the call of predictCommonLinks
PredictAnswers ==
    {Failed, Ans(<<>>, <<>>),
     Ans(<<L(1, "", "a"), [url |-> U(2, "", FALSE, FALSE, TRUE), title |-> "a"]>>, <<>>)}

\* --------------------------------------------------------------- anchors
\* the pages of the scanned site, and a page of another host
SitePages == 0..CrawlThreshold
Elsewhere == CrawlThreshold + 1

\* an <a> of the homepage, by what the filter of line 346 reads from its
\* href once resolved: whether it resolves at all, how its hostname relates
\* to the scanned one (the same, the same but for a leading www., a
\* subdomain of it, another host whose name contains it, any other host),
\* whether it holds a '#', whether it is over two characters longer than
\* the scanned url
Anchor(resolves, host, frag, longer) ==
    [resolves |-> resolves, host |-> host, frag |-> frag, longer |-> longer]
Hosts == {"same", "www", "sub", "contains", "other"}
NoAnchor == Anchor(FALSE, "other", FALSE, FALSE)
Anchors ==
    {NoAnchor}
    \cup {Anchor(TRUE, h, f, lg) : h \in Hosts, f \in BOOLEAN, lg \in BOOLEAN}

\* new URL(u).hostname.includes(domain), domain being the scanned hostname
\* without its first 'www.'
HostIncludes(host) == host \in {"same", "www", "sub", "contains"}

\* lines 343-347: the anchors whose resolved href is handed on
KeepsAnchor(a) ==
    a.resolves /\ HostIncludes(a.host) /\ ~a.frag /\ a.longer

\* ------------------------------------------------------------------ Init
IdleBatch ==
    [pc |-> "idle", urls |-> <<>>, tried |-> <<>>, success |-> 0, fail |-> 0,
     sel |-> "", shown |-> None]

IdleScan ==
    [pc |-> "idle", url |-> EmptyUrl, i |-> 0, log |-> <<>>, fret |-> None,
     links |-> <<>>, p1n |-> -1, p2n |-> -1, anchors |-> -1, curate |-> None,
     found |-> -1, called |-> {}, exit |-> None]

\* no call of a function on its own
NoCall ==
    [fn |-> None, out |-> NoOutcome, sel |-> "", url |-> EmptyUrl, ans |-> Failed,
     anchor |-> NoAnchor, done |-> FALSE, ok |-> FALSE, thrown |-> FALSE,
     text |-> Blank, norm |-> EmptyUrl, again |-> EmptyUrl, links |-> <<>>]

\* the component as it is mounted
Mounted ==
    /\ mode = "upload"
    /\ discoveryMode = FALSE
    /\ isProcessing = FALSE
    /\ progress = 0
    /\ error = None
    /\ discoveredLinks = <<>>
    /\ selectedLinks = <<>>
    /\ store = <<>>
    /\ proc = [t \in ScrapeTasks |-> IdleTask]
    /\ batch = IdleBatch
    /\ scan = IdleScan
    /\ toggles = 0

Init == Mounted /\ call = NoCall

\* what the render shows: the form of the scrape mode, or the candidate list
FormVisible == ~isProcessing /\ mode = "scrape" /\ discoveredLinks = <<>>
ListVisible == ~isProcessing /\ mode = "scrape" /\ discoveredLinks # <<>>

\* ------------------------------------------------------------ UI actions
\* the locals of a handler that has returned are gone by the next event
Returned == batch' = IdleBatch /\ scan' = IdleScan

\* the mode buttons (line 401)
SetMode(m) ==
    /\ ~isProcessing
    /\ mode' = m
    /\ error' = None
    /\ discoveredLinks' = <<>>
    /\ Returned
    /\ UNCHANGED <<call, discoveryMode, isProcessing, progress, selectedLinks, store,
                   proc, toggles>>

\* the Recursive Discovery checkbox (line 446)
SetDiscoveryMode(b) ==
    /\ FormVisible
    /\ discoveryMode # b
    /\ discoveryMode' = b
    /\ Returned
    /\ UNCHANGED <<call, mode, isProcessing, progress, error, discoveredLinks,
                   selectedLinks, store, proc, toggles>>

\* the Abort button of the candidate list (line 466)
Abort ==
    /\ ListVisible
    /\ discoveredLinks' = <<>>
    /\ discoveryMode' = FALSE
    /\ Returned
    /\ UNCHANGED <<call, mode, isProcessing, progress, error, selectedLinks, store,
                   proc, toggles>>

\* n.has(url) ? n.delete(url) : n.add(url) on a copy of the Set
ToggleIn(sel, u) ==
    IF \E i \in Idx(sel) : sel[i] = u
    THEN Keep(sel, {i \in Idx(sel) : sel[i] # u}, 1)
    ELSE Append(sel, u)

\* a click on a row of the candidate list (lines 470-474)
Toggle(n) ==
    /\ ListVisible
    /\ n \in Idx(discoveredLinks)
    /\ toggles < MaxToggles
    /\ toggles' = toggles + 1
    /\ selectedLinks' = ToggleIn(selectedLinks, discoveredLinks[n].url)
    /\ Returned
    /\ UNCHANGED <<call, mode, discoveryMode, isProcessing, progress, error,
                   discoveredLinks, store, proc>>

\* -------------------------------------------------------- scrape actions
\* processWebScrape from the return of analyzeWebContent to the next await:
\* the entry gets a generated id and saveVideoToDB is called
ScrapeAfterAnalysis(p, ok, id) ==
    IF ok THEN [p EXCEPT !.pc = "save", !.id = id, !.called = @ \cup {"save"}]
    ELSE Settle(p, "AnalysisFailure")

\* the record of the fetchWithRotation call is dropped once the call after
\* it has returned
Forget(p) == [p EXCEPT !.i = 0, !.log = <<>>, !.fret = None]

\* a processWebScrape that returns true whether or not the save went through
ScrapeAfterSaveSwallowing(p, ok) ==
    Settle([p EXCEPT !.wrote = ok, !.id = 0], "ok")

\* processWebScrape from the return of saveVideoToDB to its own return
ScrapeAfterSave(p, ok) ==
    IF ok THEN Settle([p EXCEPT !.wrote = TRUE, !.id = 0], "ok")
    ELSE Settle([p EXCEPT !.id = 0], "SaveFailure")

\* a proxy attempt of task t ends (lines 217-229, then 297-302)
ProxyResponds(t) ==
    /\ proc[t].pc = "fetch"
    /\ \E o \in ScrapeOutcomes :
          proc' = [proc EXCEPT ![t] = ScrapeAfterFetch(FetchOn(proc[t], o), o)]
    /\ UNCHANGED <<call, mode, discoveryMode, isProcessing, progress, error,
                   discoveredLinks, selectedLinks, store, batch, scan, toggles>>

\* analyzeWebContent returns or throws (lines 302-318)
AnalysisReturns(t) ==
    /\ proc[t].pc = "analyze"
    /\ \E ok \in BOOLEAN, id \in generateId :
          proc' = [proc EXCEPT ![t] = ScrapeAfterAnalysis(Forget(proc[t]), ok, id)]
    /\ UNCHANGED <<call, mode, discoveryMode, isProcessing, progress, error,
                   discoveredLinks, selectedLinks, store, batch, scan, toggles>>

\* the transaction of saveVideoToDB completes or fails (lines 318-319)
SaveReturns(t) ==
    /\ proc[t].pc = "save"
    /\ \E ok \in BOOLEAN :
          /\ proc' = [proc EXCEPT ![t] = ScrapeAfterSave(proc[t], ok)]
          /\ store' = IF ok THEN Put(store, NewEntry(proc[t].id, proc[t].url))
                      ELSE store
    /\ UNCHANGED <<call, mode, discoveryMode, isProcessing, progress, error,
                   discoveredLinks, selectedLinks, batch, scan, toggles>>

\* the standalone scrape button (line 454): processWebScrape(urlInput, ...)
ClickScrape(t) ==
    /\ FormVisible
    /\ ~discoveryMode
    /\ t \in Solos
    /\ proc[t].pc = "idle"
    /\ \E u \in PageInputs, selector \in Selectors :
          proc' = [proc EXCEPT ![t] = ScrapeBegin(u, selector)]
    /\ UNCHANGED <<call, mode, discoveryMode, isProcessing, progress, error,
                   discoveredLinks, selectedLinks, store, batch, scan, toggles>>

\* the promise of a standalone scrape settles: .then(() => onUploadComplete())
\* runs on success, and nothing handles a rejection
ScrapeSettles(t) ==
    /\ t \in Solos
    /\ proc[t].pc = "settled"
    /\ proc' = [proc EXCEPT ![t] = IdleTask]
    /\ UNCHANGED <<call, mode, discoveryMode, isProcessing, progress, error,
                   discoveredLinks, selectedLinks, store, batch, scan, toggles>>

\* --------------------------------------------------------- batch actions
\* Math.round((done / total) * 100)
Percent(done, total) == (200 * done + total) \div (2 * total)

\* counters that miss the items whose scrape threw
CountedOnSuccess(b, res) ==
    IF res = "ok" THEN [b EXCEPT !.success = @ + 1] ELSE b

\* the counters after one item (lines 378-381): success++ when
\* processWebScrape returned, fail++ when it threw
Counted(b, res) ==
    IF res = "ok" THEN [b EXCEPT !.success = @ + 1] ELSE [b EXCEPT !.fail = @ + 1]

\* the message the batch ends with (lines 386-390); error keeps its value
\* when nothing is set
BatchMessage(b, err) ==
    IF b.success = 0 THEN "BatchFailed"
    ELSE IF b.fail > 0 THEN "PartialIngest"
    ELSE err

\* a loop that starts over from the first url
FirstUrl(b) == b.urls[1]

\* the url the loop of line 376 takes next: the one after those it has tried
NextUrl(b) == b.urls[Len(b.tried) + 1]

\* the Ingest button (line 483): handleBatchScrape up to its first await
ClickBatch ==
    /\ ListVisible
    /\ selectedLinks # <<>>
    /\ isProcessing' = TRUE
    /\ \E selector \in Selectors :
          LET b == [IdleBatch EXCEPT !.pc = "run", !.urls = selectedLinks,
                                     !.sel = selector]
          IN  /\ batch' = [b EXCEPT !.tried = <<NextUrl(b)>>]
              /\ proc' = [proc EXCEPT ![Batch] = ScrapeBegin(NextUrl(b), selector)]
    /\ scan' = IdleScan
    /\ UNCHANGED <<call, mode, discoveryMode, progress, error, discoveredLinks,
                   selectedLinks, store, toggles>>

\* a loop that goes on as soon as the call has been made
Started(p) == p.pc # "idle"

\* line 379: await processWebScrape(...) resumes once the promise of the
\* call has settled, by return or by throw
Awaited(p) == p.pc = "settled"

\* a report of the successes alone
ProgressOfSuccesses(b) == Percent(b.success, Len(b.urls))

\* line 382: Math.round(((success + fail) / urls.length) * 100)
ProgressAfter(b) == Percent(b.success + b.fail, Len(b.urls))

\* the await of line 379 resumes: the item is counted, progress is set, and
\* the loop goes on to the next url or handleBatchScrape ends (lines 380-391)
BatchResumes ==
    /\ batch.pc = "run"
    /\ Awaited(proc[Batch])
    /\ LET b == Counted(batch, proc[Batch].res)
       IN  /\ progress' = ProgressAfter(b)
           /\ IF Len(b.tried) < Len(b.urls)
              THEN /\ batch' = [b EXCEPT !.tried = Append(@, NextUrl(b))]
                   /\ proc' = [proc EXCEPT ![Batch] = ScrapeBegin(NextUrl(b), b.sel)]
                   /\ UNCHANGED <<isProcessing, error, discoveredLinks>>
              ELSE /\ isProcessing' = FALSE
                   /\ error' = BatchMessage(b, error)
                   /\ discoveredLinks' = IF b.success = 0 THEN discoveredLinks ELSE <<>>
                   /\ batch' = [b EXCEPT !.pc = "done", !.sel = "",
                                          !.shown = BatchMessage(b, error)]
                   /\ proc' = [proc EXCEPT ![Batch] = IdleTask]
    /\ UNCHANGED <<call, mode, discoveryMode, selectedLinks, store, scan, toggles>>

\* ---------------------------------------------------------- scan actions
\* a fallback that runs under the threshold of the crawl
NeedsPredictUnderFive(links) == Len(links) < CrawlThreshold

\* line 357: links.length === 0
NeedsPredict(links) == Len(links) = 0

\* line 357 and after: with no link at all predictCommonLinks is called,
\* else the cascade is over
ScanAfterCrawl(sc) ==
    LET at == [sc EXCEPT !.p2n = Len(sc.links)]
    IN  IF NeedsPredict(sc.links)
        THEN [at EXCEPT !.pc = "predict", !.called = @ \cup {"predict"}]
        ELSE [at EXCEPT !.pc = "finish"]

\* lines 339-354, from the return of fetchWithRotation: with a body the
\* anchors are mapped and filtered (new URL(normalized) throws when the
\* input does not parse) and filterAndTitleLinks is called when any is kept
ScanAfterFetch(sc, o) ==
    IF sc.fret = "thrown" THEN [sc EXCEPT !.pc = "caught"]
    ELSE IF sc.fret = "null" THEN ScanAfterCrawl(sc)
    ELSE IF sc.fret = "text"
         THEN IF ~sc.url.parse THEN [sc EXCEPT !.pc = "caught"]
              ELSE IF o.page.anchors > 0
                   THEN [sc EXCEPT !.pc = "curate", !.called = @ \cup {"curate"},
                                   !.anchors = o.page.anchors]
              ELSE ScanAfterCrawl([sc EXCEPT !.anchors = o.page.anchors])
    ELSE sc

\* a cascade that crawls only when the first phase found nothing
NeedsCrawlWhenEmpty(links) == Len(links) = 0

\* line 335: links.length < 5
NeedsCrawl(links) == Len(links) < CrawlThreshold

\* lines 333-338, from the return of discoverSiteLinks: under 5 links the
\* homepage is fetched through the proxies
ScanAfterDiscover(sc, ans) ==
    LET links == discoverSiteLinks(ans)
        got   == [sc EXCEPT !.links = links, !.p1n = Len(links)]
    IN  IF NeedsCrawl(links)
        THEN ScanAfterFetch(FetchBegin([got EXCEPT !.called = @ \cup {"crawl"}], sc.url),
                            NoOutcome)
        ELSE ScanAfterCrawl(got)

\* a crawl whose curated links take the place of the links of phase 1
Replaced(links, refined) == refined

\* line 352: links = [...links, ...refined]
Merged(links, refined) == links \o refined

\* a handleScanSite whose curation call lets its error through
ScanAfterCurateThrowing(sc, ans) ==
    IF ans.ok
    THEN ScanAfterCrawl([sc EXCEPT !.links = sc.links \o ans.links,
                                   !.curate = "returned"])
    ELSE [sc EXCEPT !.pc = "caught", !.curate = "failed"]

\* lines 351-352, from the return of filterAndTitleLinks
ScanAfterCurate(sc, ans) ==
    ScanAfterCrawl([sc EXCEPT !.links = Merged(sc.links, AnswerLinks(ans)),
                              !.curate = IF ans.ok THEN "returned" ELSE "failed"])

\* line 357, from the return of predictCommonLinks
ScanAfterPredict(sc, ans) ==
    [sc EXCEPT !.links = AnswerLinks(ans), !.pc = "finish"]

\* a scan that ends without the message of line 360
ScanErrorKept(links, err) == err

\* lines 359-360: the message when uniqueLinks is empty, else error as it is
ScanError(links, err) == IF links = <<>> THEN "ZeroPaths" ELSE err

\* the rest of handleScanSite once the scan's locals are sc: lines 359-365
\* when the cascade is over, the catch of line 366 when something threw,
\* and the finally of line 367 in both cases
ScanGoesOn(sc) ==
    IF sc.pc = "finish"
    THEN /\ error' = ScanError(sc.links, error)
         /\ IF sc.links = <<>>
            THEN UNCHANGED <<discoveredLinks, selectedLinks, toggles>>
            ELSE /\ discoveredLinks' = MapDedup(sc.links)
                 /\ selectedLinks' = UrlsOf(MapDedup(sc.links))
                 /\ toggles' = 0
         /\ isProcessing' = FALSE
         /\ progress' = 0
         /\ scan' = [sc EXCEPT !.pc = "idle", !.exit = "returned", !.url = EmptyUrl,
                                !.i = 0, !.log = <<>>, !.fret = None,
                                !.found = Len(sc.links)]
    ELSE IF sc.pc = "caught"
    THEN /\ error' = "DiscoveryError"
         /\ isProcessing' = FALSE
         /\ progress' = 0
         /\ scan' = [sc EXCEPT !.pc = "idle", !.exit = "caught", !.url = EmptyUrl,
                                !.i = 0, !.log = <<>>, !.fret = None]
         /\ UNCHANGED <<discoveredLinks, selectedLinks, toggles>>
    ELSE /\ scan' = sc
         /\ progress' = IF "crawl" \in sc.called THEN 50 ELSE progress
         /\ UNCHANGED <<isProcessing, error, discoveredLinks, selectedLinks, toggles>>

\* the Engage Mapping button (line 454): handleScanSite up to its first await
ClickScan ==
    /\ FormVisible
    /\ discoveryMode
    /\ \E u \in SiteInputs :
          IF normalizeUrl(u) = EmptyUrl
          THEN UNCHANGED <<isProcessing, progress, error, discoveredLinks,
                           selectedLinks, scan, batch, toggles>>
          ELSE /\ isProcessing' = TRUE
               /\ progress' = 10
               /\ error' = None
               /\ discoveredLinks' = <<>>
               /\ selectedLinks' = <<>>
               /\ scan' = [IdleScan EXCEPT !.pc = "discover", !.url = normalizeUrl(u),
                                           !.called = {"discover"}]
               /\ batch' = IdleBatch
               /\ UNCHANGED toggles
    /\ UNCHANGED <<call, mode, discoveryMode, store, proc>>

\* discoverSiteLinks returns (lines 333-338)
DiscoverReturns ==
    /\ scan.pc = "discover"
    /\ \E ans \in DiscoverAnswers : ScanGoesOn(ScanAfterDiscover(scan, ans))
    /\ UNCHANGED <<call, mode, discoveryMode, store, proc, batch>>

\* a proxy attempt of the homepage fetch ends (lines 217-229, then 339-354)
CrawlResponds ==
    /\ scan.pc = "fetch"
    /\ \E o \in HomeOutcomes : ScanGoesOn(ScanAfterFetch(FetchOn(scan, o), o))
    /\ UNCHANGED <<call, mode, discoveryMode, store, proc, batch>>

\* filterAndTitleLinks returns (lines 351-357)
CurateReturns ==
    /\ scan.pc = "curate"
    /\ \E ans \in CurateAnswers : ScanGoesOn(ScanAfterCurate(scan, ans))
    /\ UNCHANGED <<call, mode, discoveryMode, store, proc, batch>>

\* predictCommonLinks returns (lines 357-367)
PredictReturns ==
    /\ scan.pc = "predict"
    /\ \E ans \in PredictAnswers : ScanGoesOn(ScanAfterPredict(scan, ans))
    /\ UNCHANGED <<call, mode, discoveryMode, store, proc, batch>>

\* ---------------------------------------------------- functions on their own
\* the bodies a proxy may answer with around the length of line 224, with
\* and without a denial marker, and the attempts that bring no body
BodyLens == (MinBodyLen - MaxPad)..(MinBodyLen + MaxPad)
AttemptOutcomes ==
    Failures \cup {Outcome("body", Page(n, m, NoDoc, 0)) : n \in BodyLens, m \in Markers}

\* the documents cleanHtml may be given: the selector's text is '' (no
\* element matched), white space (the elements matched have no text) or a
\* text, and so are the texts of the main-content container and of the body
Texts == {Blank, Text(MaxPad, TRUE), Short, Long}
AnyDocs == {Doc(t, hm, m, b) : t \in Texts, hm \in BOOLEAN, m \in Texts, b \in Texts}

\* the calls to make
AcceptCalls == {[NoCall EXCEPT !.fn = "accept", !.out = o] : o \in AttemptOutcomes}
CleanCalls ==
    {[NoCall EXCEPT !.fn = "cleanHtml", !.sel = sl,
                    !.out = Outcome("body", Page(MinBodyLen + 1, None, d, 0))] :
        d \in AnyDocs, sl \in Selectors}

\* the strings normalizeUrl may be given: '', blanks, and urls of the site
\* with and without a query string, padded or scheme-less or neither, that
\* new URL accepts or rejects, with and without a lone surrogate
UrlInputs ==
    {EmptyUrl, BlankUrl}
    \cup {U(p, s, r, pa, su) : p \in 0..1, s \in {"", "?q"}, r \in BOOLEAN,
                               pa \in BOOLEAN, su \in BOOLEAN}
NormalizeCalls == {[NoCall EXCEPT !.fn = "normalizeUrl", !.url = u] : u \in UrlInputs}

\* the answers discoverSiteLinks may get: up to two structured links and up
\* to two grounding citations, of the site or of another host, the
\* citation's uri containing the domain string or not
SomeLinks == {L(1, "", "a"), L(1, "?q", "b"), L(Elsewhere, "", "a")}
SomeChunks == {Chunk(2, "b", TRUE), Chunk(Elsewhere, "a", FALSE), Chunk(Elsewhere, "a", TRUE)}
UpToTwo(S) == {<<>>} \cup {<<x>> : x \in S} \cup {<<x, y>> : x \in S, y \in S}
DiscoverCalls ==
    {[NoCall EXCEPT !.fn = "discoverSiteLinks", !.ans = a] :
        a \in {Failed} \cup {Ans(l, c) : l \in UpToTwo(SomeLinks), c \in UpToTwo(SomeChunks)}}
AnchorCalls == {[NoCall EXCEPT !.fn = "anchor", !.anchor = a] : a \in Anchors}

InitCalls ==
    /\ Mounted
    /\ call \in AcceptCalls \cup CleanCalls \cup NormalizeCalls \cup DiscoverCalls
                  \cup AnchorCalls

\* lines 222-227 on one attempt: whether its body is returned
AcceptReturns ==
    /\ call.fn = "accept"
    /\ ~call.done
    /\ call' = [call EXCEPT !.done = TRUE, !.ok = Accepts(call.out)]
    /\ UNCHANGED <<mode, discoveryMode, isProcessing, progress, error,
                   discoveredLinks, selectedLinks, store, proc, batch, scan, toggles>>

\* cleanHtml(html, selector) on one document (lines 233-247)
CleanReturns ==
    /\ call.fn = "cleanHtml"
    /\ ~call.done
    /\ LET got == cleanHtml(call.out.page, call.sel)
       IN  call' = [call EXCEPT !.done = TRUE, !.thrown = got.thrown, !.text = got.text]
    /\ UNCHANGED <<mode, discoveryMode, isProcessing, progress, error,
                   discoveredLinks, selectedLinks, store, proc, batch, scan, toggles>>

\* normalizeUrl(u), and normalizeUrl of its result (lines 199-204)
NormalizeReturns ==
    /\ call.fn = "normalizeUrl"
    /\ ~call.done
    /\ call' = [call EXCEPT !.done = TRUE, !.norm = normalizeUrl(call.url),
                            !.again = normalizeUrl(normalizeUrl(call.url))]
    /\ UNCHANGED <<mode, discoveryMode, isProcessing, progress, error,
                   discoveredLinks, selectedLinks, store, proc, batch, scan, toggles>>

\* discoverSiteLinks on one answer of the model (geminiService.ts 180-203)
DiscoverCallReturns ==
    /\ call.fn = "discoverSiteLinks"
    /\ ~call.done
    /\ call' = [call EXCEPT !.done = TRUE, !.links = discoverSiteLinks(call.ans)]
    /\ UNCHANGED <<mode, discoveryMode, isProcessing, progress, error,
                   discoveredLinks, selectedLinks, store, proc, batch, scan, toggles>>

\* the filter of the crawl on one anchor (lines 343-347)
AnchorFiltered ==
    /\ call.fn = "anchor"
    /\ ~call.done
    /\ call' = [call EXCEPT !.done = TRUE, !.ok = KeepsAnchor(call.anchor)]
    /\ UNCHANGED <<mode, discoveryMode, isProcessing, progress, error,
                   discoveredLinks, selectedLinks, store, proc, batch, scan, toggles>>

NextCalls ==
    \/ AcceptReturns
    \/ CleanReturns
    \/ NormalizeReturns
    \/ DiscoverCallReturns
    \/ AnchorFiltered

\* ------------------------------------------------------------------ Next
\* the buttons of the form
NextForm ==
    \/ \E m \in {"upload", "url", "scrape"} : SetMode(m)
    \/ \E b \in BOOLEAN : SetDiscoveryMode(b)

\* the buttons and the rows of the candidate list
NextList ==
    \/ Abort
    \/ \E n \in Idx(discoveredLinks) : Toggle(n)

NextUI == NextForm \/ NextList

\* standalone scrapes
NextScrape ==
    \/ \E t \in Solos : ClickScrape(t)
    \/ \E t \in Solos : ProxyResponds(t)
    \/ \E t \in Solos : AnalysisReturns(t)
    \/ \E t \in Solos : SaveReturns(t)
    \/ \E t \in Solos : ScrapeSettles(t)

\* the batch over the selected links
NextBatch ==
    \/ ClickBatch
    \/ ProxyResponds(Batch)
    \/ AnalysisReturns(Batch)
    \/ SaveReturns(Batch)
    \/ BatchResumes

\* the discovery cascade
NextScan ==
    \/ ClickScan
    \/ DiscoverReturns
    \/ CrawlResponds
    \/ CurateReturns
    \/ PredictReturns

Next == NextUI \/ NextScrape \/ NextBatch \/ NextScan

\* the whole component
Spec == Init /\ [][Next]_vars

\* one discovery and batch cycle after another, no standalone scrape
SpecCycle == Init /\ [][NextUI \/ NextScan \/ NextBatch]_vars

\* standalone scrapes alone
SpecScrape == Init /\ [][NextForm \/ NextScrape]_vars

\* the acceptance test and the extraction, each applied to one input
SpecCalls == InitCalls /\ [][NextCalls]_vars

\* standalone scrapes and scans started from the form, with no batch
SpecForm == Init /\ [][NextForm \/ NextScrape \/ NextScan]_vars

\* the batch over the selection as the scan leaves it, under the proviso
\* that what the loop awaits comes back: a proxy attempt ends,
\* analyzeWebContent and saveVideoToDB settle, and the event loop runs the
\* continuation of the await of line 379
FairCycle ==
    /\ Init /\ [][NextForm \/ Abort \/ NextScan \/ NextBatch]_vars
    /\ WF_vars(ProxyResponds(Batch))
    /\ WF_vars(AnalysisReturns(Batch))
    /\ WF_vars(SaveReturns(Batch))
    /\ WF_vars(BatchResumes)

\* ---------------------------------------------------------------- claims
\* the calls of fetchWithRotation that have ended, by return or by throw
FetchEnded(p) == p.fret \in {"text", "null", "thrown"}

\* no attempt of the call was accepted
NoneAccepted(p) == \A n \in Idx(p.log) : ~p.log[n].accepted

\* C1: when handleBatchScrape has gone through a non-empty selection,
\* success + fail equals the number of selected URLs, whatever each URL's
\* scrape ended in; while it runs the two count the URLs already settled
C1_CountersAddUp ==
    /\ batch.pc = "done" =>
          /\ Len(batch.urls) > 0
          /\ batch.success + batch.fail = Len(batch.urls)
    /\ batch.pc = "run" => batch.success + batch.fail = Len(batch.tried) - 1

\* a batch of five URLs ends with three failures and two successes
C1_Witness ==
    batch.pc = "done" /\ Len(batch.urls) = 5 /\ batch.success = 2 /\ batch.fail = 3

\* C2: the message a finished batch leaves on screen is the hard failure
\* when nothing succeeded, the partial success when something succeeded and
\* something failed, and no error at all when nothing failed
C2_TerminalClass ==
    batch.pc = "done" =>
        batch.shown = (IF batch.success = 0 THEN "BatchFailed"
                       ELSE IF batch.fail > 0 THEN "PartialIngest"
                       ELSE None)

\* C3: a running batch whose awaited calls all come back ends, having
\* handed every selected URL to processWebScrape exactly once and in order,
\* whatever the earlier URLs ended in; the one way not to end is a
\* response body that never finishes arriving
C3_BatchCompletes ==
    /\ [](/\ \A i, j \in Idx(batch.urls) : batch.urls[i] = batch.urls[j] => i = j
          /\ Len(batch.tried) <= Len(batch.urls)
          /\ batch.tried = SubSeq(batch.urls, 1, Len(batch.tried))
          /\ batch.pc = "done" => batch.tried = batch.urls)
    /\ (batch.pc = "run") ~> (batch.pc = "done" \/ proc[Batch].pc = "hung")

\* a batch of five URLs ends although four of them failed
C3_Witness ==
    /\ batch.pc = "done"
    /\ batch.tried = batch.urls
    /\ Len(batch.urls) = 5
    /\ batch.fail = 4

\* C4: a call of fetchWithRotation that has ended contacted the proxies in
\* list order, each at most once, stopped at the first accepted response,
\* and returned null exactly when no proxy gave an accepted response
C4_Rotation ==
    \A t \in ScrapeTasks :
        LET p == proc[t]
        IN  FetchEnded(p) =>
                /\ Len(p.log) <= NumProxies
                /\ \A n \in Idx(p.log) : p.log[n].proxy = n - 1
                /\ \A n \in Idx(p.log) : p.log[n].accepted => n = Len(p.log)
                /\ p.fret = "text" => ~NoneAccepted(p)
                /\ p.fret = "null" <=> NoneAccepted(p)

\* C5: when fetchWithRotation returned null, processWebScrape threw the
\* Blocked error, called neither analyzeWebContent nor saveVideoToDB, and
\* wrote nothing
C5_FetchBlocked ==
    \A t \in ScrapeTasks :
        LET p == proc[t]
        IN  p.fret = "null" =>
                /\ p.pc = "settled"
                /\ p.res = "FetchBlocked"
                /\ p.called = {}
                /\ ~p.wrote

\* all five proxies were tried, none accepted, and the scrape is Blocked
C5_Witness ==
    \E t \in Solos :
        /\ proc[t].fret = "null"
        /\ Len(proc[t].log) = NumProxies
        /\ proc[t].res = "FetchBlocked"

\* C6: processWebScrape throws the Empty scrape error exactly when cleanHtml
\* returned a text of fewer than 100 characters, and then it has called
\* neither analyzeWebContent nor saveVideoToDB: 99 characters throw, 100 go
\* on to the analysis
C6_EmptyContent ==
    \A t \in ScrapeTasks :
        LET p == proc[t]
        IN  /\ p.res = "EmptyContent" <=> (p.textLen >= 0 /\ p.textLen < 100)
            /\ p.res = "EmptyContent" => (p.pc = "settled" /\ p.called = {} /\ ~p.wrote)
            /\ p.textLen = 99 => p.res = "EmptyContent"
            /\ p.textLen = 100 => "analyze" \in p.called

\* a text of 99 characters ended the scrape with the Empty scrape error
C6_Witness ==
    \E t \in Solos :
        /\ proc[t].textLen = 99
        /\ proc[t].pc = "settled"
        /\ proc[t].res = "EmptyContent"

\* C7: the step in which a call of processWebScrape settles adds exactly
\* one item to the store when the call returned and none when it threw
C7_OneItemPerSuccess ==
    [][\A t \in ScrapeTasks :
          (proc[t].pc # "settled" /\ proc'[t].pc = "settled") =>
              Cardinality(DOMAIN store') =
                  Cardinality(DOMAIN store) + (IF proc'[t].res = "ok" THEN 1 ELSE 0)]_vars

\* C8: no call of fetchWithRotation ends by throwing
C8_NeverThrows ==
    \A t \in ScrapeTasks : proc[t].fret # "thrown"

\* C9: the step that ends handleScanSite, by its return or through its
\* catch, leaves isProcessing false; when the cascade found no link, or
\* was cut short by an exception, the candidate list is empty and an error
\* message is set
C9_ScanEnds ==
    [][(scan.pc # "idle" /\ scan'.pc = "idle") =>
          /\ ~isProcessing'
          /\ scan'.exit \in {"returned", "caught"}
          /\ scan'.found <= 0 =>
                /\ discoveredLinks' = <<>>
                /\ error' \in {"ZeroPaths", "DiscoveryError"}]_vars

\* a scan went through all three phases, found nothing, and says so
C9_Witness ==
    /\ scan.exit = "returned"
    /\ scan.found = 0
    /\ scan.called = {"discover", "crawl", "predict"}
    /\ ~isProcessing
    /\ discoveredLinks = <<>>
    /\ error = "ZeroPaths"

\* C10: once discoverSiteLinks has returned, the homepage fetch has been
\* started exactly when it returned fewer than 5 links, and with 5 or more
\* filterAndTitleLinks is not called either
C10_CrawlThreshold ==
    scan.p1n >= 0 =>
        /\ "crawl" \in scan.called <=> scan.p1n < 5
        /\ scan.p1n >= 5 => scan.called \cap {"crawl", "curate"} = {}

\* a scan whose first phase returned exactly 5 links ended without a crawl
C10_Witness ==
    /\ scan.p1n = 5
    /\ scan.exit = "returned"
    /\ "crawl" \notin scan.called

\* the number of links the first two phases had produced when the cascade
\* reached line 357, or when an exception cut it short
LinksOfPhases12 == IF scan.p2n >= 0 THEN scan.p2n ELSE Len(scan.links)

C13_NoStrippedDuplicates ==
    \A i, j \in Idx(discoveredLinks) :
        Strip(discoveredLinks[i].url) = Strip(discoveredLinks[j].url) => i = j

\* the title of the first link of the cascade that has the url u
FirstTitle(links, u) ==
    links[CHOOSE i \in Idx(links) :
              /\ links[i].url = u
              /\ \A j \in 1..(i - 1) : links[j].url # u].title

\* C14: every candidate of the list a scan has just set carries the title
\* of the first link with its url among the links the cascade produced
C14_FirstSeenTitle ==
    (scan.exit = "returned" /\ scan.found > 0) =>
        \A n \in Idx(discoveredLinks) :
            discoveredLinks[n].title = FirstTitle(scan.links, discoveredLinks[n].url)

\* C15: within one batch run the scrapes are strictly sequential: the loop
\* starts the scrape of the next url, or ends, only in a step that finds the
\* scrape of the previous url settled (returned or thrown), and while the
\* batch runs exactly one of the urls it has started is not yet counted
C15_Sequential ==
    /\ [][(batch.pc = "run" /\ batch' # batch /\ batch' # IdleBatch)
             => /\ proc[Batch].pc = "settled"
                /\ proc[Batch].url = normalizeUrl(batch.urls[Len(batch.tried)])
                /\ batch'.success + batch'.fail = batch.success + batch.fail + 1
                /\ (batch'.pc = "run" => batch'.tried = Append(batch.tried, batch.urls[Len(batch.tried) + 1]))]_vars
    /\ [](batch.pc = "run" => /\ Len(batch.tried) = batch.success + batch.fail + 1
                              /\ proc[Batch].pc # "idle")

\* the second scrape of a batch is in flight, the first one counted
C15_Witness ==
    /\ batch.pc = "run"
    /\ Len(batch.tried) = 2
    /\ batch.success + batch.fail = 1
    /\ proc[Batch].pc = "fetch"

\* the pipelines in flight: the standalone calls of processWebScrape that
\* have not settled, the scan, the batch
SoloInFlight == {t \in Solos : proc[t].pc \in {"fetch", "analyze", "save", "hung"}}
ScanInFlight == scan.pc \in {"discover", "fetch", "curate", "predict"}
BatchInFlight == batch.pc = "run"
InFlight ==
    Cardinality(SoloInFlight) + (IF ScanInFlight THEN 1 ELSE 0)
        + (IF BatchInFlight THEN 1 ELSE 0)

\* C16: across every sequence of user actions at most one scrape or
\* discovery pipeline is in flight at any time
C16_OnePipeline == InFlight <= 1

\* the items a batch has completed, and the percentage of n of its items,
\* rounded half up
Completed(b) == b.success + b.fail
Share(n, b) == (200 * n + Len(b.urls)) \div (2 * Len(b.urls))

\* C17: during a batch run progress is reported once after every item,
\* successful or failed: progress is set in exactly the steps that complete
\* an item, each of them raises the completed count by one and reports its
\* share of the total, the reports never decrease, and the last one is 100
C17_ProgressPerItem ==
    /\ [][batch.pc = "run"
             => /\ (batch' = batch => progress' = progress)
                /\ (batch' # batch
                      => /\ Completed(batch') = Completed(batch) + 1
                         /\ progress' = Share(Completed(batch'), batch')
                         /\ (Completed(batch) >= 1 => progress' >= progress))]_vars
    /\ [](batch.pc = "run" /\ Completed(batch) >= 1
             => progress = Share(Completed(batch), batch))
    /\ [](batch.pc = "done"
             => Completed(batch) = Len(batch.urls) /\ progress = 100)

\* a batch of several urls has ended with items saved and items failed
C17_Witness ==
    /\ batch.pc = "done"
    /\ batch.success >= 1
    /\ batch.fail >= 1
    /\ Len(batch.urls) >= 3
    /\ progress = 100

\* C18: a proxy attempt's body is accepted if and only if the response is
\* 2xx, the body is longer than 500 characters and it holds none of the
\* markers "access denied", "bot check", "please enable javascript"
C18_AcceptanceTest ==
    (call.fn = "accept" /\ call.done)
        => (call.ok <=> /\ call.out.kind = "body"
                        /\ call.out.page.len > 500
                        /\ call.out.page.marker \notin
                              {"access denied", "bot check", "please enable javascript"})

\* C19: cleanHtml with a selector that matches no element, or only
\* elements without text, does not throw and returns what it returns
\* without a selector: the text of the main-content container when there
\* is one, else the text of the body
C19_SelectorMissed ==
    (call.fn = "cleanHtml" /\ call.done /\ call.sel = "valid"
        /\ call.out.page.doc.sel.blank)
        => /\ ~call.thrown
           /\ call.text = IF call.out.page.doc.hasMain
                          THEN call.out.page.doc.main
                          ELSE call.out.page.doc.body
           /\ call.text = cleanHtml(call.out.page, "").text

\* a selector whose elements hold white space only, on a document without
\* a main-content container: the text of the body is returned
C19_Witness ==
    /\ call.fn = "cleanHtml" /\ call.done /\ call.sel = "valid"
    /\ call.out.page.doc.sel = Text(MaxPad, TRUE)
    /\ ~call.out.page.doc.hasMain
    /\ call.text = Long
    /\ call.out.page.doc.body = Long

\* C20: filterAndTitleLinks never lets an error through: when its ranking
\* call or the parse of its answer fails it returns [], and the cascade goes
\* on with the links it has: the scan does not end in the catch, the links
\* after the crawl are those of the first phase, and the prediction is
\* called exactly when there are none
C20_CurationBestEffort ==
    scan.curate = "failed"
        => /\ scan.pc \in {"predict", "idle"}
           /\ scan.exit # "caught"
           /\ scan.p2n = scan.p1n
           /\ ("predict" \in scan.called <=> scan.p1n = 0)
           /\ (scan.exit = "returned" /\ scan.p1n > 0
                 => /\ scan.found = scan.p1n
                    /\ error # "DiscoveryError"
                    /\ discoveredLinks # <<>>)

\* a scan whose curation failed has ended with the links of the first phase
C20_Witness ==
    /\ scan.curate = "failed"
    /\ scan.exit = "returned"
    /\ scan.p1n > 0
    /\ scan.found = scan.p1n
    /\ Len(discoveredLinks) > 0

\* C21: no save of the ingestion pipeline uses the id of an item already in
\* the store: the id of an entry handed to saveVideoToDB is not the key of
\* a stored item, so no stored item is overwritten by a later ingest
C21_FreshId ==
    \A t \in ScrapeTasks : proc[t].pc = "save" => proc[t].id \notin DOMAIN store

\* C22: the discovery session is cleared when a batch completes or the
\* discovery is reset: a batch that has ended, whatever its outcome, leaves
\* the candidate list and the selection empty, and once the list has been
\* emptied (by a batch, the Abort button or a mode switch) no url is selected
C22_SessionCleared ==
    /\ batch.pc = "done" => (discoveredLinks = <<>> /\ selectedLinks = <<>>)
    /\ (~isProcessing /\ discoveredLinks = <<>>) => selectedLinks = <<>>

\* C23: when a standalone scrape fails with FetchBlocked, EmptyContent or
\* an analysis failure, the call site catches the failure and shows it: the
\* step in which the rejected promise is consumed leaves an error message
C23_SoloFailureReported ==
    [][\A t \in Solos :
          (/\ proc[t].pc = "settled"
           /\ proc[t].res \in {"FetchBlocked", "EmptyContent", "AnalysisFailure"}
           /\ proc'[t].pc = "idle")
              => error' # None]_vars

\* C24: normalizeUrl is idempotent: for every input, the empty, the padded,
\* the scheme-less and the unparsable ones included, normalizing the result
\* again gives the result
C24_NormalizeIdempotent ==
    (call.fn = "normalizeUrl" /\ call.done) => call.again = call.norm

\* a scheme-less string that new URL rejects has been normalized to another
\* string, which normalizes to itself
C24_Witness ==
    /\ call.fn = "normalizeUrl" /\ call.done
    /\ call.url.raw /\ ~call.url.parse /\ call.url.page >= 0
    /\ call.norm # call.url
    /\ call.again = call.norm

\* C25: a proxy attempt that hangs, before the headers or while the body is
\* read, is aborted by the timer and the next proxy is tried: no call of
\* fetchWithRotation, from a scrape or from the scan, is ever left waiting
\* on an attempt that nothing will end
C25_NoHungFetch ==
    /\ \A t \in ScrapeTasks : proc[t].pc # "hung"
    /\ scan.pc # "hung"

\* C26: cleanHtml returns the empty string only if none of its three
\* sources yields text: when the elements the selector matches, a
\* main-content container or the body has text, the result is not empty
C26_EmptyOnlyIfNoText ==
    (/\ call.fn = "cleanHtml" /\ call.done /\ ~call.thrown
     /\ \/ (call.sel # "" /\ ~call.out.page.doc.sel.blank)
        \/ (call.out.page.doc.hasMain /\ ~call.out.page.doc.main.blank)
        \/ ~call.out.page.doc.body.blank)
        => call.text.len > 0

\* C27: every link discoverSiteLinks returns, from the structured answer or
\* from a grounding citation, is a url hosted on the target domain
C27_DiscoveredOnDomain ==
    (call.fn = "discoverSiteLinks" /\ call.done)
        => \A i \in Idx(call.links) : call.links[i].url.page \in SitePages

\* C28: every url the anchor crawl hands to filterAndTitleLinks has the
\* hostname of the target, a leading www. apart, and holds no fragment
C28_AnchorsOnHost ==
    (call.fn = "anchor" /\ call.done /\ call.ok)
        => (call.anchor.host \in {"same", "www"} /\ ~call.anchor.frag)

\* C29: a scrape runs fetch, extract, analyze, persist in that order,
\* each step only after the one before succeeded: analyzeWebContent is
\* called only with a text of at least 100 characters from an accepted
\* body, saveVideoToDB only after the analysis returned, a scrape returns
\* only after its save went through, and a url whose analysis or save threw
\* is counted as failed by the batch, with nothing written to the store
C29_StepsInOrder ==
    /\ [](\A t \in ScrapeTasks :
            LET p == proc[t]
            IN  /\ "analyze" \in p.called => p.textLen >= 100
                /\ p.pc = "analyze" => (p.fret = "text" /\ p.log[Len(p.log)].accepted)
                /\ "save" \in p.called => "analyze" \in p.called
                /\ p.pc = "save" => p.called = {"analyze", "save"}
                /\ p.wrote <=> p.res = "ok"
                /\ p.res = "ok" => (p.pc = "settled" /\ p.called = {"analyze", "save"})
                /\ p.res = "AnalysisFailure" => p.called = {"analyze"}
                /\ p.res = "SaveFailure" => p.called = {"analyze", "save"})
    /\ [][/\ (store' # store
                => \E t \in ScrapeTasks : proc[t].pc = "save" /\ proc'[t].res = "ok")
          /\ (/\ batch.pc = "run"
              /\ batch' # batch
              /\ proc[Batch].res \in {"AnalysisFailure", "SaveFailure"})
                => /\ batch'.fail = batch.fail + 1
                   /\ batch'.success = batch.success
                   /\ store' = store]_vars

\* in a batch, the save of a url has failed after its analysis, and a url
\* before it was saved
C29_Witness ==
    /\ batch.pc = "run"
    /\ batch.success >= 1
    /\ proc[Batch].res = "SaveFailure"
    /\ proc[Batch].called = {"analyze", "save"}
    /\ Cardinality(DOMAIN store) >= 1

\* the urls of the candidates on show
Candidates == {discoveredLinks[n].url : n \in Idx(discoveredLinks)}

\* C30: whenever the candidate list is not empty, every selected url is the
\* url of a candidate of the list, which is that of the most recent scan; a
\* running batch scrapes urls of that list only, one at a time; and a scan
\* that has just ended with candidates has selected every one of them
C30_SelectionWithinCandidates ==
    /\ discoveredLinks # <<>>
         => \A i \in Idx(selectedLinks) : selectedLinks[i] \in Candidates
    /\ batch.pc = "run"
         => /\ batch.urls # <<>>
            /\ \A i \in Idx(batch.urls) : batch.urls[i] \in Candidates
            /\ \A i \in Idx(batch.tried) : batch.tried[i] = batch.urls[i]
    /\ (scan.exit = "returned" /\ scan.found > 0)
         => /\ Len(selectedLinks) = Len(discoveredLinks)
            /\ \A n \in Idx(discoveredLinks) : selectedLinks[n] = discoveredLinks[n].url
            /\ Candidates = {scan.links[n].url : n \in Idx(scan.links)}

\* after a toggle, a batch over a part of the candidates has failed on every
\* url: the list is on show again with the same part selected
C30_Witness ==
    /\ batch.pc = "done"
    /\ batch.success = 0
    /\ discoveredLinks # <<>>
    /\ selectedLinks # <<>>
    /\ Len(selectedLinks) < Len(discoveredLinks)
    /\ \A i \in Idx(selectedLinks) : selectedLinks[i] \in Candidates

====
